---------------------------- MODULE Spec2Model ----------------------------
(***************************************************************************)
(* A model of srt2csv: the lock-file guard around process_srt_file and the *)
(* command line entry point (src/__main__.py), the vocabulary parser and   *)
(* the text rewriter (src/src/srt2csv/vocabulary.py), the fallback         *)
(* subtitle parser and the floor match (src/subtitle_csv.py).              *)
(*                                                                         *)
(* Text is a sequence of one-character strings: <<"K", ".">> is "K.".      *)
(***************************************************************************)
EXTENDS Integers, Sequences, FiniteSets, TLC

(***************************************************************************)
(* Bounds of the model.                                                    *)
(***************************************************************************)
NumProcs == 2

MaxBlocks == 2

\* The tokens a subtitle text is written from, at most.
MaxTokens == 3

\* The rules of a rule list and the lines of a vocabulary, at most.
MaxRules == 2

MaxVocabLines == 2

\* The entries of a profile list, at most, and the largest duration.
MaxProfile == 3

MaxDuration == 3

Procs == 1..NumProcs

(***************************************************************************)
(* Characters and the string primitives of Python the code relies on.      *)
(***************************************************************************)
Digits == {"0", "1", "2", "3", "4", "5", "6", "7", "8", "9"}

LowerLetters == <<"a", "b", "c", "d", "e", "f", "g", "h", "i", "j", "k", "l", "m",
                  "n", "o", "p", "q", "r", "s", "t", "u", "v", "w", "x", "y", "z">>

UpperLetters == <<"A", "B", "C", "D", "E", "F", "G", "H", "I", "J", "K", "L", "M",
                  "N", "O", "P", "Q", "R", "S", "T", "U", "V", "W", "X", "Y", "Z">>

Range(s) == {s[i] : i \in DOMAIN s}

\* The regular expression class \w on the characters of the model.
WordChars == Range(LowerLetters) \cup Range(UpperLetters) \cup Digits \cup {"_"}

\* The characters str.strip() removes.
Whitespace == {" ", "\t", "\n", "\r", "\f"}

\* The line boundaries str.splitlines() splits on (those of the model).
LineBreaks == {"\n", "\r"}

\* str.upper() and str.lower() of one character.
Upper(c) ==
  IF \E i \in DOMAIN LowerLetters : LowerLetters[i] = c
  THEN UpperLetters[CHOOSE i \in DOMAIN LowerLetters : LowerLetters[i] = c]
  ELSE c

Lower(c) ==
  IF \E i \in DOMAIN UpperLetters : UpperLetters[i] = c
  THEN LowerLetters[CHOOSE i \in DOMAIN UpperLetters : UpperLetters[i] = c]
  ELSE c

\* str.strip(): leading and trailing whitespace removed.
RECURSIVE LStrip(_)
LStrip(s) ==
  IF s # <<>> /\ Head(s) \in Whitespace THEN LStrip(Tail(s)) ELSE s

RECURSIVE RStrip(_)
RStrip(s) ==
  IF s # <<>> /\ s[Len(s)] \in Whitespace
  THEN RStrip(SubSeq(s, 1, Len(s) - 1))
  ELSE s

Strip(s) == RStrip(LStrip(s))

\* str.isdigit(): not empty and every character a digit.
IsDigit(s) == s # <<>> /\ \A i \in DOMAIN s : s[i] \in Digits

\* sub occurs in s at index i (1-based); the empty string occurs everywhere.
OccursAt(sub, s, i) ==
  /\ i >= 1
  /\ i + Len(sub) - 1 <= Len(s)
  /\ SubSeq(s, i, i + Len(sub) - 1) = sub

\* The operator `in` on strings.
Contains(s, sub) == \E i \in 1..(Len(s) + 1) : OccursAt(sub, s, i)

\* str.find(): the first index of sub in s, 0 when there is none.
Find(s, sub) ==
  IF Contains(s, sub)
  THEN CHOOSE i \in 1..(Len(s) + 1) :
         /\ OccursAt(sub, s, i)
         /\ \A j \in 1..(i - 1) : ~OccursAt(sub, s, j)
  ELSE 0

\* The index of the first line break of s, 0 when there is none.
FirstBreak(s) ==
  IF \E i \in DOMAIN s : s[i] \in LineBreaks
  THEN CHOOSE i \in DOMAIN s :
         /\ s[i] \in LineBreaks
         /\ \A j \in 1..(i - 1) : s[j] \notin LineBreaks
  ELSE 0

\* str.splitlines(): the lines of s without their line breaks; "\r\n" is one
\* break, and a break that ends the text opens no further line.
RECURSIVE SplitLines(_)
SplitLines(s) ==
  IF s = <<>> THEN <<>>
  ELSE LET b == FirstBreak(s)
       IN IF b = 0 THEN <<s>>
          ELSE LET width == IF s[b] = "\r" /\ b < Len(s) /\ s[b + 1] = "\n"
                            THEN 2 ELSE 1
               IN <<SubSeq(s, 1, b - 1)>> \o SplitLines(SubSeq(s, b + width, Len(s)))

\* sep.join(parts)
RECURSIVE Join(_, _)
Join(parts, sep) ==
  IF parts = <<>> THEN <<>>
  ELSE IF Len(parts) = 1 THEN parts[1]
  ELSE parts[1] \o sep \o Join(Tail(parts), sep)

(***************************************************************************)
(* The vocabulary parser (vocabulary.py).  A rule is a pair <<old, new>>.  *)
(***************************************************************************)
Separator == <<"<", "=", ">">>

two_cases(title) ==
  IF title = <<>> THEN << <<>>, <<>> >>
  ELSE << <<Upper(Head(title))>> \o Tail(title),
          <<Lower(Head(title))>> \o Tail(title) >>

\* The rules one line of the vocabulary yields: none for a blank line or a
\* line without the separator, else the upper and the lower variant.
RulesOfLine(raw) ==
  LET line == Strip(raw)
      at == Find(line, Separator)
  IN IF line = <<>> \/ at = 0 THEN <<>>
     ELSE LET old == SubSeq(line, 1, at - 1)
              new == SubSeq(line, at + Len(Separator), Len(line))
              cases == two_cases(Strip(new))
              old_strip == Strip(old)
          IN << <<old_strip, cases[1]>>, <<old_strip, cases[2]>> >>

RECURSIVE RulesOfLines(_)
RulesOfLines(lines) ==
  IF lines = <<>> THEN <<>>
  ELSE RulesOfLine(Head(lines)) \o RulesOfLines(Tail(lines))

\* list.sort(key=len(old), reverse=True): stable, longest pattern first.
RECURSIVE InsertByLength(_, _)
InsertByLength(sorted, rule) ==
  IF sorted = <<>> THEN <<rule>>
  ELSE IF Len(Head(sorted)[1]) >= Len(rule[1])
       THEN <<Head(sorted)>> \o InsertByLength(Tail(sorted), rule)
       ELSE <<rule>> \o sorted

RECURSIVE SortLongestFirst(_)
SortLongestFirst(rules) ==
  IF rules = <<>> THEN <<>>
  ELSE InsertByLength(SortLongestFirst(SubSeq(rules, 1, Len(rules) - 1)),
                      rules[Len(rules)])

parse_vocabular_text(vocabular_text) ==
  SortLongestFirst(RulesOfLines(SplitLines(vocabular_text)))

(***************************************************************************)
(* The rewriter (vocabulary.py,                                            *)
(* modify_subtitles_with_vocabular_text_only_optimized).                   *)
(***************************************************************************)
Arrow == <<"-", "-", ">">>

\* The class with the hyphen left out.
InLookaroundClassNoHyphen(c) == c \in WordChars

\* The class [\w-] of the two lookarounds of the compiled pattern.
InLookaroundClass(c) == c \in WordChars \cup {"-"}

\* (?<![\w-])(old)(?![\w-]) matches at index i of line.
MatchAt(old, line, i) ==
  /\ OccursAt(old, line, i)
  /\ i = 1 \/ ~InLookaroundClass(line[i - 1])
  /\ i + Len(old) > Len(line) \/ ~InLookaroundClass(line[i + Len(old)])

\* The scan of pattern.sub: the starts of the matches, left to right, each
\* search resuming where the last match ended (one further on after an empty
\* match).
RECURSIVE FindMatches(_, _, _)
FindMatches(old, line, pos) ==
  IF pos > Len(line) + 1 THEN <<>>
  ELSE IF MatchAt(old, line, pos)
       THEN <<pos>> \o FindMatches(old, line,
                                   IF old = <<>> THEN pos + 1 ELSE pos + Len(old))
       ELSE FindMatches(old, line, pos + 1)

\* pattern.sub reads the replacement as a template: a backslash starts an
\* escape.  TemplateError is the re.error a bad escape raises.
Backslash == "\\"

TemplateError == <<"re.error">>

\* The character escapes of a template; the characters TLA+ has no escape
\* for are named.
Escapes == [a |-> "BEL", b |-> "BS", f |-> "\f", n |-> "\n", r |-> "\r", t |-> "\t",
            v |-> "VT"]

\* What one escape stands for, as <<text, characters read>>, or TemplateError:
\* repl[at] is the backslash, group is the text the pattern matched.  Codes of
\* two or three octal digits and group names other than <0> and <1> are not
\* written in the templates of the model.
EscapeAt(repl, at, group) ==
  IF at = Len(repl) THEN TemplateError
  ELSE LET c == repl[at + 1]
           digit_next == at + 2 <= Len(repl) /\ repl[at + 2] \in Digits
       IN IF c \in DOMAIN Escapes THEN << <<Escapes[c]>>, 2 >>
          ELSE IF c = Backslash THEN << <<Backslash>>, 2 >>
          ELSE IF c = "g"
               THEN IF \/ OccursAt(<<"<", "0", ">">>, repl, at + 2)
                       \/ OccursAt(<<"<", "1", ">">>, repl, at + 2)
                    THEN <<group, 5>>
                    ELSE TemplateError
          ELSE IF c = "0" /\ ~digit_next THEN << <<"NUL">>, 2 >>
          ELSE IF c = "1" /\ ~digit_next THEN <<group, 2>>
          ELSE IF c \in Digits \cup Range(LowerLetters) \cup Range(UpperLetters)
               THEN TemplateError
          ELSE << <<Backslash, c>>, 2 >>

\* The text a match gives way to.
RECURSIVE expand_template(_, _, _)
expand_template(repl, at, group) ==
  IF at > Len(repl) THEN <<>>
  ELSE LET this == IF repl[at] = Backslash THEN EscapeAt(repl, at, group)
                   ELSE << <<repl[at]>>, 1 >>
       IN IF this = TemplateError THEN TemplateError
          ELSE LET rest == expand_template(repl, at + this[2], group)
               IN IF rest = TemplateError THEN TemplateError ELSE this[1] \o rest

\* The text pattern.sub builds: what lies between the matches is copied, each
\* match gives way to the replacement.
RECURSIVE Expand(_, _, _, _, _)
Expand(line, matches, oldLen, new, pos) ==
  IF matches = <<>> THEN SubSeq(line, pos, Len(line))
  ELSE SubSeq(line, pos, Head(matches) - 1) \o new
       \o Expand(line, Tail(matches), oldLen, new, Head(matches) + oldLen)

\* pattern.sub(new, line): the template is read whether or not old matches.
PatternSub(old, new, line) ==
  LET text == expand_template(new, 1, old)
  IN IF text = TemplateError THEN TemplateError
     ELSE Expand(line, FindMatches(old, line, 1), Len(old), text, 1)

\* The inner loop: every rule in order, each on the result of the one before.
RECURSIVE ApplyRules(_, _)
ApplyRules(line, replacements) ==
  IF replacements = <<>> THEN line
  ELSE LET new_text == PatternSub(Head(replacements)[1], Head(replacements)[2], line)
       IN IF new_text = TemplateError THEN TemplateError
          ELSE ApplyRules(new_text, Tail(replacements))

\* A line the rewriter skips: empty, digits only, or holding the arrow.
IsStructural(line) ==
  LET line_stripped == Strip(line)
  IN line_stripped = <<>> \/ IsDigit(line_stripped) \/ Contains(line_stripped, Arrow)

RewriteLine(line, replacements) ==
  IF IsStructural(line) THEN line ELSE ApplyRules(line, replacements)

RewriteLines(lines, replacements) ==
  [i \in DOMAIN lines |-> RewriteLine(lines[i], replacements)]

\* The whole function: the text, or the re.error of the first content line.
modify_subtitles(subtitles, replacements) ==
  IF replacements = <<>> THEN subtitles
  ELSE LET new_lines == RewriteLines(SplitLines(subtitles), replacements)
       IN IF \E i \in DOMAIN new_lines : new_lines[i] = TemplateError
          THEN TemplateError
          ELSE Join(new_lines, <<"\n">>)

(***************************************************************************)
(* The state.                                                              *)
(***************************************************************************)
VARIABLES
  \* main and the lock guard (__main__.py), one invocation per process
  lock_file,        \* the lock marker exists
  preexisting,      \* the lock marker existed before any invocation started
  subtitle_exists,  \* the subtitle path exists
  output_exists,    \* the output table exists
  pc,               \* where each invocation stands
  vocabular,        \* each invocation's --vocabular argument
  replacements,     \* each invocation's vocabular_replacements
  pending,          \* what the processing body returned or raised
  result,           \* what the invocation returned or raised
  parser_input,     \* the text the body handed to the table writer
  waits,            \* the sleeps each invocation has made
  touched,          \* the invocation created the lock marker
  unlinked,         \* the invocation removed the lock marker
  saw_lock,         \* the check at which the invocation saw the marker
  lock_at_return,   \* whether the marker existed when the invocation returned
  \* the fallback parser (subtitle_csv.py)
  blocks,           \* the kinds of the blocks the subtitle text was written from
  srt_text,         \* the subtitle text
  lines,            \* its lines
  line_no,          \* the line the loop stands at
  subtitle_number,  \* the block's index, or None
  start_time,       \* the block's start, or None
  end_time,         \* the block's end, or None
  subtitle_text,    \* the block's text lines
  entries,          \* the entries emitted
  parse_state,      \* idle, start, loop, returned or raised
  \* the rewriter (vocabulary.py)
  vocabular_text,   \* the vocabulary the rules are parsed from, or None
  subtitles,        \* the text handed to the rewriter
  rw_replacements,  \* the rule list handed to the rewriter
  rw_lines,         \* subtitles.splitlines()
  result_lines,     \* the lines rewritten so far
  output,           \* what the rewriter returned
  first_output,     \* what the first of two passes returned, or None
  passes,           \* the passes that have returned
  rw_state,         \* idle, vocab, start, loop, returned or raised
  \* the floor match (subtitle_csv.py)
  value,            \* the target
  array,            \* the profile list
  fl_i,             \* the position of the loop
  max_value,        \* the element held
  index,            \* its position, counted from 0
  floor_state       \* idle, start, loop, done or returned

lockVars == <<lock_file, preexisting, subtitle_exists, output_exists, pc, vocabular,
              replacements, pending, result, parser_input, waits, touched,
              unlinked, saw_lock, lock_at_return>>

parseVars == <<blocks, srt_text, lines, line_no, subtitle_number, start_time, end_time,
               subtitle_text, entries, parse_state>>

rewriteVars == <<vocabular_text, subtitles, rw_replacements, rw_lines, result_lines,
                 output, first_output, passes, rw_state>>

floorVars == <<value, array, fl_i, max_value, index, floor_state>>

vars == <<lockVars, parseVars, rewriteVars, floorVars>>

\* What the actions of one part leave alone.
notLockVars == <<parseVars, rewriteVars, floorVars>>

notParseVars == <<lockVars, rewriteVars, floorVars>>

notRewriteVars == <<lockVars, parseVars, floorVars>>

notFloorVars == <<lockVars, parseVars, rewriteVars>>

(***************************************************************************)
(* main and with_lock(process_srt_file) of __main__.py.                    *)
(***************************************************************************)
\* The subtitle file and the vocabulary file of the runs.
SubtitleFileText == <<"1", "\n", "K", ".", "\n">>

VocabularFileText == <<"K", "<", "=", ">", "v">>

\* --vocabular: not given, a path with no file, an empty file, a file of rules.
VocabularArgs == {"absent", "missing", "empty", "rules"}

\* vocabular_replacements before any assignment: a value that is no rule list.
Unbound == <<"unbound">>

Errors == {"FileNotFoundError_subtitle", "FileNotFoundError_vocabular",
           "UnboundLocalError", "ProcessingError", "FileNotFoundError_unlink"}

BodyLabels == {"body", "convert"}

LockInit ==
  /\ lock_file \in BOOLEAN
  /\ preexisting = lock_file
  /\ subtitle_exists \in BOOLEAN
  /\ output_exists \in BOOLEAN
  /\ pc = [p \in Procs |-> "main"]
  /\ vocabular \in [Procs -> VocabularArgs]
  /\ replacements = [p \in Procs |-> Unbound]
  /\ pending = [p \in Procs |-> "none"]
  /\ result = [p \in Procs |-> "running"]
  /\ parser_input = [p \in Procs |-> <<>>]
  /\ waits = [p \in Procs |-> 0]
  /\ touched = [p \in Procs |-> FALSE]
  /\ unlinked = [p \in Procs |-> FALSE]
  /\ saw_lock = [p \in Procs |-> "no"]
  /\ lock_at_return = [p \in Procs |-> FALSE]

\* The invocation ends with value or exception r.
Return(p, r, lockNow) ==
  /\ pc' = [pc EXCEPT ![p] = "done"]
  /\ result' = [result EXCEPT ![p] = r]
  /\ lock_at_return' = [lock_at_return EXCEPT ![p] = lockNow]

\* main, lines 84-87: the subtitle must exist; the vocabulary is parsed only
\* when the argument is given, and opening a missing file raises.
MainLoadVocabular(p) ==
  /\ pc[p] = "main"
  /\ \/ /\ ~subtitle_exists
        /\ Return(p, "FileNotFoundError_subtitle", lock_file)
        /\ UNCHANGED replacements
     \/ /\ subtitle_exists
        /\ vocabular[p] = "absent"
        /\ pc' = [pc EXCEPT ![p] = "call"]
        /\ UNCHANGED <<replacements, result, lock_at_return>>
     \/ /\ subtitle_exists
        /\ vocabular[p] = "missing"
        /\ Return(p, "FileNotFoundError_vocabular", lock_file)
        /\ UNCHANGED replacements
     \/ /\ subtitle_exists
        /\ vocabular[p] \in {"empty", "rules"}
        /\ replacements' = [replacements EXCEPT ![p] =
             parse_vocabular_text(IF vocabular[p] = "empty" THEN <<>>
                                  ELSE VocabularFileText)]
        /\ pc' = [pc EXCEPT ![p] = "call"]
        /\ UNCHANGED <<result, lock_at_return>>
  /\ UNCHANGED notLockVars
  /\ UNCHANGED <<lock_file, preexisting, subtitle_exists, output_exists, vocabular,
                 pending, parser_input, waits, touched, unlinked, saw_lock>>

\* main, lines 88-89: the call reads vocabular_replacements, which is unbound
\* when no vocabulary was given.
MainCall(p) ==
  /\ pc[p] = "call"
  /\ \/ /\ replacements[p] = Unbound
        /\ Return(p, "UnboundLocalError", lock_file)
     \/ /\ replacements[p] # Unbound
        /\ pc' = [pc EXCEPT ![p] = "check"]
        /\ UNCHANGED <<result, lock_at_return>>
  /\ UNCHANGED notLockVars
  /\ UNCHANGED <<lock_file, preexisting, subtitle_exists, output_exists, vocabular,
                 replacements, pending, parser_input, waits, touched, unlinked,
                 saw_lock>>

\* A first look that gives up when it finds no marker.
WrapperCheckInverted(p) ==
  /\ pc[p] = "check"
  /\ \/ /\ ~lock_file
        /\ saw_lock' = [saw_lock EXCEPT ![p] = "first"]
        /\ Return(p, "None", lock_file)
     \/ /\ lock_file
        /\ pc' = [pc EXCEPT ![p] = "sleep"]
        /\ UNCHANGED <<saw_lock, result, lock_at_return>>
  /\ UNCHANGED notLockVars
  /\ UNCHANGED <<lock_file, preexisting, subtitle_exists, output_exists, vocabular,
                 replacements, pending, parser_input, waits, touched, unlinked>>

\* wrapper, lines 25-27: the first look at the marker.
WrapperCheck(p) ==
  /\ pc[p] = "check"
  /\ \/ /\ lock_file
        /\ saw_lock' = [saw_lock EXCEPT ![p] = "first"]
        /\ Return(p, "None", lock_file)
     \/ /\ ~lock_file
        /\ pc' = [pc EXCEPT ![p] = "sleep"]
        /\ UNCHANGED <<saw_lock, result, lock_at_return>>
  /\ UNCHANGED notLockVars
  /\ UNCHANGED <<lock_file, preexisting, subtitle_exists, output_exists, vocabular,
                 replacements, pending, parser_input, waits, touched, unlinked>>

\* wrapper, lines 29-30: the one jittered sleep.
WrapperSleep(p) ==
  /\ pc[p] = "sleep"
  /\ waits' = [waits EXCEPT ![p] = @ + 1]
  /\ pc' = [pc EXCEPT ![p] = "recheck"]
  /\ UNCHANGED notLockVars
  /\ UNCHANGED <<lock_file, preexisting, subtitle_exists, output_exists, vocabular,
                 replacements, pending, result, parser_input, touched, unlinked,
                 saw_lock, lock_at_return>>

\* A wrapper that waits for the marker to go away instead of giving up.
WrapperRecheckRetry(p) ==
  /\ pc[p] = "recheck"
  /\ \/ /\ lock_file
        /\ saw_lock' = [saw_lock EXCEPT ![p] = "recheck"]
        /\ pc' = [pc EXCEPT ![p] = "sleep"]
     \/ /\ ~lock_file
        /\ pc' = [pc EXCEPT ![p] = "touch"]
        /\ UNCHANGED saw_lock
  /\ UNCHANGED notLockVars
  /\ UNCHANGED <<lock_file, preexisting, subtitle_exists, output_exists, vocabular,
                 replacements, pending, result, parser_input, waits, touched,
                 unlinked, lock_at_return>>

\* wrapper, lines 32-34: the second look, after the sleep.
WrapperRecheck(p) ==
  /\ pc[p] = "recheck"
  /\ \/ /\ lock_file
        /\ saw_lock' = [saw_lock EXCEPT ![p] = "recheck"]
        /\ Return(p, "None", lock_file)
     \/ /\ ~lock_file
        /\ pc' = [pc EXCEPT ![p] = "touch"]
        /\ UNCHANGED <<saw_lock, result, lock_at_return>>
  /\ UNCHANGED notLockVars
  /\ UNCHANGED <<lock_file, preexisting, subtitle_exists, output_exists, vocabular,
                 replacements, pending, parser_input, waits, touched, unlinked>>

\* wrapper, line 37: lock_file.touch() creates the marker, or leaves one that
\* another invocation has created meanwhile.
WrapperTouch(p) ==
  /\ pc[p] = "touch"
  /\ lock_file' = TRUE
  /\ touched' = [touched EXCEPT ![p] = TRUE]
  /\ pc' = [pc EXCEPT ![p] = "body"]
  /\ UNCHANGED notLockVars
  /\ UNCHANGED <<preexisting, subtitle_exists, output_exists, vocabular, replacements,
                 pending, result, parser_input, waits, unlinked, saw_lock,
                 lock_at_return>>

\* process_srt_file, lines 49-53: an output that exists is kept.
BodyCheckOutput(p) ==
  /\ pc[p] = "body"
  /\ \/ /\ output_exists
        /\ pending' = [pending EXCEPT ![p] = "output_path"]
        /\ pc' = [pc EXCEPT ![p] = "finally"]
     \/ /\ ~output_exists
        /\ pc' = [pc EXCEPT ![p] = "convert"]
        /\ UNCHANGED pending
  /\ UNCHANGED notLockVars
  /\ UNCHANGED <<lock_file, preexisting, subtitle_exists, output_exists, vocabular,
                 replacements, result, parser_input, waits, touched, unlinked,
                 saw_lock, lock_at_return>>

\* process_srt_file, lines 54-63: read, rewrite when there are rules, write.
BodyConvert(p) ==
  /\ pc[p] = "convert"
  /\ parser_input' = [parser_input EXCEPT ![p] =
       IF replacements[p] # <<>>
       THEN modify_subtitles(SubtitleFileText, replacements[p])
       ELSE SubtitleFileText]
  /\ output_exists' = TRUE
  /\ pending' = [pending EXCEPT ![p] = "output_path"]
  /\ pc' = [pc EXCEPT ![p] = "finally"]
  /\ UNCHANGED notLockVars
  /\ UNCHANGED <<lock_file, preexisting, subtitle_exists, vocabular, replacements,
                 result, waits, touched, unlinked, saw_lock, lock_at_return>>

\* A body whose exception leaves the wrapper without passing its finally.
BodyRaisesPastFinally(p) ==
  /\ pc[p] = "convert"
  /\ pending' = [pending EXCEPT ![p] = "ProcessingError"]
  /\ Return(p, "ProcessingError", lock_file)
  /\ UNCHANGED notLockVars
  /\ UNCHANGED <<lock_file, preexisting, subtitle_exists, output_exists, vocabular,
                 replacements, parser_input, waits, touched, unlinked, saw_lock>>

\* process_srt_file, lines 54-58: reading or converting raises; the
\* exception travels to the wrapper's finally (lines 36-40).
BodyRaises(p) ==
  /\ pc[p] = "convert"
  /\ pending' = [pending EXCEPT ![p] = "ProcessingError"]
  /\ pc' = [pc EXCEPT ![p] = "finally"]
  /\ UNCHANGED notLockVars
  /\ UNCHANGED <<lock_file, preexisting, subtitle_exists, output_exists, vocabular,
                 replacements, result, parser_input, waits, touched, unlinked,
                 saw_lock, lock_at_return>>

\* wrapper, line 41: the finally looks for the marker; without one the
\* invocation ends with what the body returned or raised.
FinallyCheck(p) ==
  /\ pc[p] = "finally"
  /\ \/ /\ lock_file
        /\ pc' = [pc EXCEPT ![p] = "unlink"]
        /\ UNCHANGED <<result, lock_at_return>>
     \/ /\ ~lock_file
        /\ Return(p, pending[p], lock_file)
  /\ UNCHANGED notLockVars
  /\ UNCHANGED <<lock_file, preexisting, subtitle_exists, output_exists, vocabular,
                 replacements, pending, parser_input, waits, touched, unlinked,
                 saw_lock>>

\* wrapper, lines 42-43: unlink removes the marker; it raises when another
\* invocation has removed it since the look of line 41.
FinallyUnlink(p) ==
  /\ pc[p] = "unlink"
  /\ \/ /\ lock_file
        /\ lock_file' = FALSE
        /\ unlinked' = [unlinked EXCEPT ![p] = TRUE]
        /\ Return(p, pending[p], FALSE)
     \/ /\ ~lock_file
        /\ Return(p, "FileNotFoundError_unlink", lock_file)
        /\ UNCHANGED <<lock_file, unlinked>>
  /\ UNCHANGED notLockVars
  /\ UNCHANGED <<preexisting, subtitle_exists, output_exists, vocabular, replacements,
                 pending, parser_input, waits, touched, saw_lock>>

LockNext ==
  \E p \in Procs :
    \/ MainLoadVocabular(p)
    \/ MainCall(p)
    \/ WrapperCheck(p)
    \/ WrapperSleep(p)
    \/ WrapperRecheck(p)
    \/ WrapperTouch(p)
    \/ BodyCheckOutput(p)
    \/ BodyConvert(p)
    \/ BodyRaises(p)
    \/ FinallyCheck(p)
    \/ FinallyUnlink(p)


(***************************************************************************)
(* Claims about the lock guard and main, checked under Spec.               *)
(***************************************************************************)
AllDone == \A p \in Procs : pc[p] = "done"

\* C1: at most one invocation is inside the processing body of the same
\* subtitle file at any time.
MutualExclusion == Cardinality({p \in Procs : pc[p] \in BodyLabels}) <= 1

\* C2: an invocation that sees the lock marker, at the first check or at the
\* re-check, has returned None at once: it has not run the body, has neither
\* created nor removed the marker, has raised nothing, and has slept at most
\* once (not at all before the first check, once before the re-check).
SkipOnContention ==
  \A p \in Procs :
    saw_lock[p] # "no" =>
      /\ pc[p] = "done"
      /\ result[p] = "None"
      /\ pending[p] = "none"
      /\ parser_input[p] = <<>>
      /\ ~touched[p]
      /\ ~unlinked[p]
      /\ waits[p] = (IF saw_lock[p] = "first" THEN 0 ELSE 1)

\* C2, its case: an invocation skipped at the re-check, as the marker of
\* another invocation appeared during its sleep, and one skipped at the first
\* check.
SkipOnContentionWitness ==
  /\ ~preexisting
  /\ \E p \in Procs : saw_lock[p] = "recheck" /\ pc[p] = "done"

MissingVocabularIsEmpty ==
  \A p \in Procs :
    (pc[p] = "done" /\ subtitle_exists /\ vocabular[p] \in {"absent", "missing"}) =>
      /\ result[p] \notin {"UnboundLocalError", "FileNotFoundError_vocabular"}
      /\ parser_input[p] \in {<<>>, SubtitleFileText}

(***************************************************************************)
(* The fallback parser (subtitle_csv.py, srt_to_csv.fallback_parse_srt).   *)
(***************************************************************************)
DigitChars == <<"0", "1", "2", "3", "4", "5", "6", "7", "8", "9">>

\* The byte order mark, one character of the text.
BOM == "BOM"

DigitVal(c) == (CHOOSE i \in DOMAIN DigitChars : DigitChars[i] = c) - 1

\* int() of a string of digits.
RECURSIVE IntOf(_)
IntOf(s) ==
  IF s = <<>> THEN 0
  ELSE IntOf(SubSeq(s, 1, Len(s) - 1)) * 10 + DigitVal(s[Len(s)])

\* str.replace(old, new), old not empty: every occurrence, left to right.
RECURSIVE Replace(_, _, _)
Replace(s, old, new) ==
  LET at == Find(s, old)
  IN IF at = 0 THEN s
     ELSE SubSeq(s, 1, at - 1) \o new
          \o Replace(SubSeq(s, at + Len(old), Len(s)), old, new)

\* str.split(sep): the parts between the occurrences of sep, always one at least.
RECURSIVE Split(_, _)
Split(s, sep) ==
  LET at == Find(s, sep)
  IN IF at = 0 THEN <<s>>
     ELSE <<SubSeq(s, 1, at - 1)>> \o Split(SubSeq(s, at + Len(sep), Len(s)), sep)

\* \d{2}:\d{2}:\d{2},\d{3} --> \d{2}:\d{2}:\d{2},\d{3}, "d" standing for \d.
TimecodePattern ==
  <<"d", "d", ":", "d", "d", ":", "d", "d", ",", "d", "d", "d",
    " ", "-", "-", ">", " ",
    "d", "d", ":", "d", "d", ":", "d", "d", ",", "d", "d", "d">>

\* re.match of the pattern: at the start of the line, whatever follows it.
TimecodeMatch(line) ==
  /\ Len(line) >= Len(TimecodePattern)
  /\ \A i \in DOMAIN TimecodePattern :
       IF TimecodePattern[i] = "d" THEN line[i] \in Digits
       ELSE line[i] = TimecodePattern[i]

TimeSeparator == <<" ", "-", "-", ">", " ">>

ValueError == <<"ValueError">>

\* The digits s starts with, at most n of them.
RECURSIVE LeadingDigits(_, _)
LeadingDigits(s, n) ==
  IF n = 0 \/ s = <<>> \/ Head(s) \notin Digits THEN <<>>
  ELSE <<Head(s)>> \o LeadingDigits(Tail(s), n - 1)

\* %f: one to six digits, read as a fraction of a second, in microseconds.
RECURSIVE Microseconds(_)
Microseconds(digits) ==
  IF Len(digits) >= 6 THEN IntOf(digits) ELSE Microseconds(Append(digits, "0"))

\* datetime.strptime(s, '%H:%M:%S,%f') - datetime(1900, 1, 1), a timedelta
\* <<seconds, microseconds>>, or ValueError: a field of one or two digits in
\* its range, each literal in its place, nothing left over.
strptime(s) ==
  LET h == LeadingDigits(s, 2)
      s1 == SubSeq(s, Len(h) + 1, Len(s))
      m == LeadingDigits(IF s1 = <<>> THEN <<>> ELSE Tail(s1), 2)
      s2 == SubSeq(s1, Len(m) + 2, Len(s1))
      sec == LeadingDigits(IF s2 = <<>> THEN <<>> ELSE Tail(s2), 2)
      s3 == SubSeq(s2, Len(sec) + 2, Len(s2))
      f == LeadingDigits(IF s3 = <<>> THEN <<>> ELSE Tail(s3), 6)
      rest == SubSeq(s3, Len(f) + 2, Len(s3))
  IN IF /\ h # <<>> /\ IntOf(h) <= 23
        /\ s1 # <<>> /\ Head(s1) = ":"
        /\ m # <<>> /\ IntOf(m) <= 59
        /\ s2 # <<>> /\ Head(s2) = ":"
        /\ sec # <<>> /\ IntOf(sec) <= 59
        /\ s3 # <<>> /\ Head(s3) = ","
        /\ f # <<>>
        /\ rest = <<>>
     THEN <<(IntOf(h) * 60 + IntOf(m)) * 60 + IntOf(sec), Microseconds(f)>>
     ELSE ValueError

\* Python's None and a value, and the truth of `if x`.
None == <<>>

Some(v) == <<v>>

TruthyNumber(x) == x # None /\ x[1] # 0

TruthyString(x) == x # None /\ x[1] # <<>>

\* The subtitle texts of the runs: blocks of these kinds, one after another.
BlockKinds == {"good", "two_lines", "no_timecode", "bad_timecode", "range_timecode",
               "junk_timecode", "no_index", "no_text", "zero_index", "number_text",
               "digits_in_text"}

IndexLine(k) == <<DigitChars[k + 1]>>

\* 00:00:0k,000 --> 00:00:0k,500, the minutes of the end as given.
TimecodeLine(k, minutes) ==
  <<"0", "0", ":", "0", "0", ":", "0", DigitChars[k + 1], ",", "0", "0", "0">>
  \o TimeSeparator
  \o <<"0", "0", ":">> \o minutes \o <<":", "0", DigitChars[k + 1], ",", "5", "0", "0">>

TextLine == <<"H", "i">>

SecondTextLine == <<"K", ".">>

\* The lines of the k-th block, of the given kind.
BlockLines(kind, k) ==
  CASE kind = "good" ->
         <<IndexLine(k), TimecodeLine(k, <<"0", "0">>), TextLine>>
    [] kind = "two_lines" ->
         <<IndexLine(k), TimecodeLine(k, <<"0", "0">>), TextLine, SecondTextLine>>
    [] kind = "no_timecode" ->
         <<IndexLine(k), TextLine>>
    [] kind = "bad_timecode" ->  \* no milliseconds at the start
         <<IndexLine(k), SubSeq(TimecodeLine(k, <<"0", "0">>), 1, 8)
                         \o SubSeq(TimecodeLine(k, <<"0", "0">>), 13, 29), TextLine>>
    [] kind = "range_timecode" ->  \* 61 minutes
         <<IndexLine(k), TimecodeLine(k, <<"6", "1">>), TextLine>>
    [] kind = "junk_timecode" ->  \* a letter after the end
         <<IndexLine(k), TimecodeLine(k, <<"0", "0">>) \o <<"x">>, TextLine>>
    [] kind = "no_index" ->
         <<TimecodeLine(k, <<"0", "0">>), TextLine>>
    [] kind = "no_text" ->
         <<IndexLine(k), TimecodeLine(k, <<"0", "0">>)>>
    [] kind = "zero_index" ->
         <<IndexLine(0), TimecodeLine(k, <<"0", "0">>), TextLine>>
    [] kind = "number_text" ->
         <<IndexLine(k), TimecodeLine(k, <<"0", "0">>), <<"4", "2">> >>
    [] kind = "digits_in_text" ->
         <<IndexLine(k), TimecodeLine(k, <<"0", "0">>), TextLine, <<"4", "2">> >>

\* The lines of the blocks, a blank line after each but the last.
RECURSIVE AllBlockLines(_, _)
AllBlockLines(kinds, k) ==
  IF k > Len(kinds) THEN <<>>
  ELSE BlockLines(kinds[k], k)
       \o (IF k < Len(kinds) THEN << <<>> >> ELSE <<>>)
       \o AllBlockLines(kinds, k + 1)

\* The text: an optional byte order mark, the lines joined by the line end,
\* an optional line end after the last line.
RenderBlocks(kinds, bom, eol, final) ==
  (IF bom THEN <<BOM>> ELSE <<>>)
  \o Join(AllBlockLines(kinds, 1), eol)
  \o (IF final /\ kinds # <<>> THEN eol ELSE <<>>)

BlockSeqs == UNION {[1..n -> BlockKinds] : n \in 0..MaxBlocks}

ParseInit ==
  /\ blocks \in BlockSeqs
  /\ \E bom \in BOOLEAN, crlf \in BOOLEAN, final \in BOOLEAN :
       srt_text = RenderBlocks(blocks, bom, IF crlf THEN <<"\r", "\n">> ELSE <<"\n">>,
                               final)
  /\ lines = <<>>
  /\ line_no = 0
  /\ subtitle_number = None
  /\ start_time = None
  /\ end_time = None
  /\ subtitle_text = <<>>
  /\ entries = <<>>
  /\ parse_state = "start"

\* fallback_parse_srt, lines 27-32.
ParseStart ==
  /\ parse_state = "start"
  /\ lines' = Split(Replace(Replace(srt_text, <<BOM>>, <<>>),
                            <<"\r", "\n">>, <<"\n">>), <<"\n">>)
  /\ line_no' = 1
  /\ subtitle_number' = None
  /\ start_time' = None
  /\ end_time' = None
  /\ subtitle_text' = <<>>
  /\ entries' = <<>>
  /\ parse_state' = "loop"
  /\ UNCHANGED notParseVars
  /\ UNCHANGED <<blocks, srt_text>>

\* Lines 43-48 and 57-62: the block is emitted when index, start, end and
\* text are all truthy; strptime may raise, and nothing catches it.
Complete ==
  /\ TruthyNumber(subtitle_number)
  /\ TruthyString(start_time)
  /\ TruthyString(end_time)
  /\ subtitle_text # <<>>

EmitRaises ==
  Complete /\ (strptime(start_time[1]) = ValueError \/ strptime(end_time[1]) = ValueError)

Emitted ==
  IF Complete
  THEN Append(entries, [index |-> subtitle_number[1],
                        start |-> strptime(start_time[1]),
                        end |-> strptime(end_time[1]),
                        content |-> Join(subtitle_text, <<" ">>)])
  ELSE entries

\* One turn of the loop of lines 34-54.
ParseLine ==
  /\ parse_state = "loop"
  /\ line_no <= Len(lines)
  /\ LET line == Strip(lines[line_no])
     IN \/ /\ IsDigit(line)
           /\ subtitle_number' = Some(IntOf(line))
           /\ line_no' = line_no + 1
           /\ UNCHANGED <<start_time, end_time, subtitle_text, entries, parse_state>>
        \/ /\ ~IsDigit(line)
           /\ TimecodeMatch(line)
           /\ start_time' = Some(Split(line, TimeSeparator)[1])
           /\ end_time' = Some(Split(line, TimeSeparator)[2])
           /\ line_no' = line_no + 1
           /\ UNCHANGED <<subtitle_number, subtitle_text, entries, parse_state>>
        \/ /\ ~IsDigit(line)
           /\ ~TimecodeMatch(line)
           /\ line = <<>>
           /\ EmitRaises
           /\ parse_state' = "raised"
           /\ UNCHANGED <<line_no, subtitle_number, start_time, end_time,
                          subtitle_text, entries>>
        \/ /\ ~IsDigit(line)
           /\ ~TimecodeMatch(line)
           /\ line = <<>>
           /\ ~EmitRaises
           /\ entries' = Emitted
           /\ subtitle_number' = None
           /\ start_time' = None
           /\ end_time' = None
           /\ subtitle_text' = <<>>
           /\ line_no' = line_no + 1
           /\ UNCHANGED parse_state
        \/ /\ ~IsDigit(line)
           /\ ~TimecodeMatch(line)
           /\ line # <<>>
           /\ subtitle_text' = Append(subtitle_text, line)
           /\ line_no' = line_no + 1
           /\ UNCHANGED <<subtitle_number, start_time, end_time, entries, parse_state>>
  /\ UNCHANGED notParseVars
  /\ UNCHANGED <<blocks, srt_text, lines>>

\* Lines 56-63: the last block, then the return.
ParseEnd ==
  /\ parse_state = "loop"
  /\ line_no > Len(lines)
  /\ \/ /\ EmitRaises
        /\ parse_state' = "raised"
        /\ UNCHANGED entries
     \/ /\ ~EmitRaises
        /\ entries' = Emitted
        /\ parse_state' = "returned"
  /\ UNCHANGED notParseVars
  /\ UNCHANGED <<blocks, srt_text, lines, line_no, subtitle_number, start_time,
                 end_time, subtitle_text>>

ParseNext == ParseStart \/ ParseLine \/ ParseEnd

(***************************************************************************)
(* The rewriter at work (vocabulary.py): one text, one rule list, the      *)
(* lines taken one at a time; the caller may hand the output back in.      *)
(***************************************************************************)
\* The pieces the subtitle texts are written from.
Tokens == { <<"K">>, <<"K", " ", "K">>, <<" ">>, <<"-">>, <<".">>, <<"\n">>,
            <<"-", "-", ">">>, <<"1">> }

RECURSIVE TextsOf(_)
TextsOf(n) ==
  IF n = 0 THEN { <<>> }
  ELSE LET shorter == TextsOf(n - 1)
       IN shorter \cup { t \o k : t \in shorter, k \in Tokens }

Texts == TextsOf(MaxTokens)

\* The rules a caller hands over directly, an empty pattern among them; a
\* rule list holds a rule once.
RuleSet == { << <<"K">>, <<"v">> >>,
             << <<"K", " ", "K">>, <<"K">> >>,
             << <<>>, <<".">> >> }

RECURSIVE RuleListsOf(_)
RuleListsOf(n) ==
  IF n = 0 THEN { <<>> }
  ELSE LET shorter == RuleListsOf(n - 1)
       IN shorter \cup { Append(l[1], l[2]) :
                          l \in { p \in shorter \X RuleSet : p[2] \notin Range(p[1]) } }

RuleLists == RuleListsOf(MaxRules)

\* The lines a vocabulary is written from.
VocabLines == { <<"K", " ", "K", "<", "=", ">", "K", " ", "1">>,
                <<"K", "<", "=", ">", "v">>,
                <<" ", "K", " ", "<", "=", ">", " ", "1", " ">>,
                <<"K">>,
                <<"K", "<", "=", ">", Backslash, "n">>,
                <<"K", "<", "=", ">", Backslash>> }

RECURSIVE VocabTextsOf(_)
VocabTextsOf(n) ==
  IF n = 0 THEN { <<>> }
  ELSE LET shorter == VocabTextsOf(n - 1)
       IN shorter \cup { IF t = <<>> THEN l ELSE t \o <<"\n">> \o l :
                          t \in shorter, l \in VocabLines }

VocabTexts == VocabTextsOf(MaxVocabLines)

RewriteIdle ==
  /\ vocabular_text = None
  /\ subtitles = <<>>
  /\ rw_replacements = <<>>
  /\ rw_lines = <<>>
  /\ result_lines = <<>>
  /\ output = <<>>
  /\ first_output = None
  /\ passes = 0
  /\ rw_state = "idle"

\* The rewriter called with a rule list of the caller's.
RewriteInit ==
  /\ vocabular_text = None
  /\ subtitles \in Texts
  /\ rw_replacements \in RuleLists
  /\ rw_lines = <<>>
  /\ result_lines = <<>>
  /\ output = <<>>
  /\ first_output = None
  /\ passes = 0
  /\ rw_state = "start"

\* The rewriter called with the rules of a vocabulary, as process_srt_file does.
VocabInit ==
  /\ vocabular_text \in { Some(t) : t \in VocabTexts }
  /\ subtitles \in Texts
  /\ rw_replacements = <<>>
  /\ rw_lines = <<>>
  /\ result_lines = <<>>
  /\ output = <<>>
  /\ first_output = None
  /\ passes = 0
  /\ rw_state = "vocab"

\* parse_vocabular_text on the vocabulary.
ParseVocabular ==
  /\ rw_state = "vocab"
  /\ rw_replacements' = parse_vocabular_text(vocabular_text[1])
  /\ rw_state' = "start"
  /\ UNCHANGED <<vocabular_text, subtitles, rw_lines, result_lines, output,
                 first_output, passes>>
  /\ UNCHANGED notRewriteVars

\* The entry: an empty rule list returns the text as it is, any other splits
\* it into lines.
RewriteStart ==
  /\ rw_state = "start"
  /\ \/ /\ rw_replacements = <<>>
        /\ output' = subtitles
        /\ passes' = passes + 1
        /\ rw_state' = "returned"
        /\ UNCHANGED <<rw_lines, result_lines>>
     \/ /\ rw_replacements # <<>>
        /\ rw_lines' = SplitLines(subtitles)
        /\ result_lines' = <<>>
        /\ rw_state' = "loop"
        /\ UNCHANGED <<output, passes>>
  /\ UNCHANGED <<vocabular_text, subtitles, rw_replacements, first_output>>
  /\ UNCHANGED notRewriteVars

\* One turn of the loop over the lines: a structural line is kept, a content
\* line goes through every rule.
RewriteLineStep ==
  /\ rw_state = "loop"
  /\ Len(result_lines) < Len(rw_lines)
  /\ LET line == rw_lines[Len(result_lines) + 1]
         new_line == ApplyRules(line, rw_replacements)
     IN \/ /\ IsStructural(line)
           /\ result_lines' = Append(result_lines, line)
           /\ UNCHANGED rw_state
        \/ /\ ~IsStructural(line)
           /\ new_line # TemplateError
           /\ result_lines' = Append(result_lines, new_line)
           /\ UNCHANGED rw_state
        \/ /\ ~IsStructural(line)
           /\ new_line = TemplateError
           /\ rw_state' = "raised"
           /\ UNCHANGED result_lines
  /\ UNCHANGED <<vocabular_text, subtitles, rw_replacements, rw_lines, output,
                 first_output, passes>>
  /\ UNCHANGED notRewriteVars

\* The lines joined with "\n" and returned.
RewriteReturn ==
  /\ rw_state = "loop"
  /\ Len(result_lines) = Len(rw_lines)
  /\ output' = Join(result_lines, <<"\n">>)
  /\ passes' = passes + 1
  /\ rw_state' = "returned"
  /\ UNCHANGED <<vocabular_text, subtitles, rw_replacements, rw_lines, result_lines,
                 first_output>>
  /\ UNCHANGED notRewriteVars

\* The caller hands the output back in, with the same rule list.
RewriteAgain ==
  /\ rw_state = "returned"
  /\ passes = 1
  /\ first_output' = Some(output)
  /\ subtitles' = output
  /\ rw_state' = "start"
  /\ UNCHANGED <<vocabular_text, rw_replacements, rw_lines, result_lines, output,
                 passes>>
  /\ UNCHANGED notRewriteVars

RewriteNext == RewriteStart \/ RewriteLineStep \/ RewriteReturn \/ RewriteAgain

VocabNext == ParseVocabular \/ RewriteStart \/ RewriteLineStep \/ RewriteReturn

(***************************************************************************)
(* The floor match (subtitle_csv.py, find_closest_from_floor_value_index). *)
(***************************************************************************)
\* The profile lists: not empty, sorted ascending.
Profiles ==
  UNION { { a \in [1..n -> 1..MaxDuration] : \A i \in 1..(n - 1) : a[i] <= a[i + 1] } :
          n \in 1..MaxProfile }

FloorIdle ==
  /\ value = 0
  /\ array = <<>>
  /\ fl_i = 0
  /\ max_value = 0
  /\ index = 0
  /\ floor_state = "idle"

FloorInit ==
  /\ value \in 0..(MaxDuration + 1)
  /\ array \in Profiles
  /\ fl_i = 0
  /\ max_value = 0
  /\ index = 0
  /\ floor_state = "start"

\* max_value, index = array[0], 0
FloorStart ==
  /\ floor_state = "start"
  /\ max_value' = array[1]
  /\ index' = 0
  /\ fl_i' = 0
  /\ floor_state' = "loop"
  /\ UNCHANGED <<value, array>>
  /\ UNCHANGED notFloorVars

\* One turn of the loop: the first element below the target is taken and the
\* loop left, any other element is taken and the loop goes on.
FloorStep ==
  /\ floor_state = "loop"
  /\ fl_i < Len(array)
  /\ LET arr == array[fl_i + 1]
     IN /\ max_value' = arr
        /\ index' = fl_i
        /\ \/ /\ arr < value
              /\ floor_state' = "done"
              /\ fl_i' = fl_i
           \/ /\ ~(arr < value)
              /\ floor_state' = "loop"
              /\ fl_i' = fl_i + 1
  /\ UNCHANGED <<value, array>>
  /\ UNCHANGED notFloorVars

\* return max_value, index
FloorReturn ==
  /\ \/ floor_state = "done"
     \/ floor_state = "loop" /\ fl_i = Len(array)
  /\ floor_state' = "returned"
  /\ UNCHANGED <<value, array, fl_i, max_value, index>>
  /\ UNCHANGED notFloorVars

FloorNext == FloorStart \/ FloorStep \/ FloorReturn

(***************************************************************************)
(* The specifications: each runs one part of the program, the others idle. *)
(***************************************************************************)
LockIdle ==
  /\ lock_file = FALSE
  /\ preexisting = FALSE
  /\ subtitle_exists = TRUE
  /\ output_exists = FALSE
  /\ pc = [p \in Procs |-> "idle"]
  /\ vocabular = [p \in Procs |-> "absent"]
  /\ replacements = [p \in Procs |-> Unbound]
  /\ pending = [p \in Procs |-> "none"]
  /\ result = [p \in Procs |-> "running"]
  /\ parser_input = [p \in Procs |-> <<>>]
  /\ waits = [p \in Procs |-> 0]
  /\ touched = [p \in Procs |-> FALSE]
  /\ unlinked = [p \in Procs |-> FALSE]
  /\ saw_lock = [p \in Procs |-> "no"]
  /\ lock_at_return = [p \in Procs |-> FALSE]

ParseIdle ==
  /\ blocks = <<>>
  /\ srt_text = <<>>
  /\ lines = <<>>
  /\ line_no = 0
  /\ subtitle_number = None
  /\ start_time = None
  /\ end_time = None
  /\ subtitle_text = <<>>
  /\ entries = <<>>
  /\ parse_state = "idle"

\* main and the lock guard, NumProcs invocations on one subtitle file.
Init == LockInit /\ ParseIdle /\ RewriteIdle /\ FloorIdle

Next == LockNext

Spec == Init /\ [][Next]_vars

\* The same with every invocation of process_srt_file running on: once in
\* the wrapper it takes its next step (the sleep of line 30 is finite, the
\* body ends).
WrapperStep(p) ==
  \/ WrapperCheck(p)
  \/ WrapperSleep(p)
  \/ WrapperRecheck(p)
  \/ WrapperTouch(p)
  \/ BodyCheckOutput(p)
  \/ BodyRaises(p)
  \/ BodyConvert(p)
  \/ FinallyCheck(p)
  \/ FinallyUnlink(p)

SpecFair == Init /\ [][Next]_vars /\ \A p \in Procs : WF_vars(WrapperStep(p))

\* The fallback parser on one subtitle text.
InitParse == LockIdle /\ ParseInit /\ RewriteIdle /\ FloorIdle

SpecParse == InitParse /\ [][ParseNext]_vars

\* The rewriter on one text with a rule list of the caller's, once or twice.
InitRewrite == LockIdle /\ ParseIdle /\ RewriteInit /\ FloorIdle

SpecRewrite == InitRewrite /\ [][RewriteNext]_vars

\* The rewriter on one text with the rules parsed from a vocabulary.
InitVocab == LockIdle /\ ParseIdle /\ VocabInit /\ FloorIdle

SpecVocab == InitVocab /\ [][VocabNext]_vars

\* The floor match on one profile list and one target.
InitFloor == LockIdle /\ ParseIdle /\ RewriteIdle /\ FloorInit

SpecFloor == InitFloor /\ [][FloorNext]_vars

(***************************************************************************)
(* Claims about the fallback parser, checked under SpecParse.              *)
(***************************************************************************)
WellFormedKinds == {"good", "two_lines"}

\* A timecode that is malformed, or a field that is missing.
BadKinds == {"no_timecode", "bad_timecode", "range_timecode", "junk_timecode",
             "no_index", "no_text"}

\* The entry a well-formed block at place k stands for.
EntryOf(kind, k) ==
  [index |-> k, start |-> <<k, 0>>, end |-> <<k, 500000>>,
   content |-> IF kind = "good" THEN TextLine
               ELSE TextLine \o <<" ">> \o SecondTextLine]

\* The entries of the well-formed blocks among kinds, in their order.
RECURSIVE EntriesFrom(_, _)
EntriesFrom(kinds, k) ==
  IF k > Len(kinds) THEN <<>>
  ELSE (IF kinds[k] \in WellFormedKinds THEN <<EntryOf(kinds[k], k)>> ELSE <<>>)
       \o EntriesFrom(kinds, k + 1)

ParseOver == parse_state \in {"returned", "raised"}

\* C4: on a text of well-formed blocks and blocks with a malformed timecode or
\* a missing field, the parser returns without an error, and what it returns
\* is the entries of the well-formed blocks, in input order: no bad block is
\* emitted, no well-formed one is lost.
BadBlocksAreDropped ==
  (ParseOver /\ \A i \in DOMAIN blocks : blocks[i] \in WellFormedKinds \cup BadKinds) =>
    /\ parse_state = "returned"
    /\ entries = EntriesFrom(blocks, 1)

(***************************************************************************)
(* Claims about the rewriter with the rules of a vocabulary, checked under *)
(* SpecVocab.                                                              *)
(***************************************************************************)
IsProperSubstring(short, long) == Len(short) < Len(long) /\ Contains(long, short)

\* Every boundary-clean occurrence of short in the line lies inside an
\* occurrence of long that the long rule replaces.
CoveredByLong(line, long, short) ==
  LET replaced == Range(FindMatches(long, line, 1))
  IN /\ replaced # {}
     /\ \A at \in 1..(Len(line) + 1) :
          MatchAt(short, line, at) =>
            \E m \in replaced : m <= at /\ at + Len(short) <= m + Len(long)

WithoutPattern(rules, old) == SelectSeq(rules, LAMBDA r : r[1] # old)

\* C6: with the rules of a vocabulary that hold a pattern and a shorter
\* pattern inside it, a content line whose occurrences of the shorter pattern
\* all lie inside replaced occurrences of the longer one comes out as it
\* would without the shorter pattern's rules: only the longer rule acts there.
LongestMatchFirst ==
  (rw_state = "loop" /\ vocabular_text # None) =>
    \A i \in DOMAIN result_lines :
      \A j, k \in DOMAIN rw_replacements :
        LET long == rw_replacements[j][1]
            short == rw_replacements[k][1]
        IN (/\ ~IsStructural(rw_lines[i])
            /\ IsProperSubstring(short, long)
            /\ CoveredByLong(rw_lines[i], long, short)) =>
             result_lines[i] = ApplyRules(rw_lines[i], WithoutPattern(rw_replacements, short))

(***************************************************************************)
(* Claims about the rewriter with a rule list of the caller's, checked     *)
(* under SpecRewrite.                                                      *)
(***************************************************************************)
\* A word character or a hyphen.
WordOrHyphen(c) ==
  c \in Digits \cup Range(LowerLetters) \cup Range(UpperLetters) \cup {"_", "-"}

\* The occurrences of old in line with, on each side, the line's end or a
\* character that is neither a word character nor a hyphen.
Eligible(old, line) ==
  { m \in 1..(Len(line) + 1) :
      /\ OccursAt(old, line, m)
      /\ m = 1 \/ ~WordOrHyphen(line[m - 1])
      /\ m + Len(old) > Len(line) \/ ~WordOrHyphen(line[m + Len(old)]) }

\* S holds, of these, the ones that share no character with a member of S to
\* their left: the leftmost first, then the next clear of it, and so on.
IsLeftmostDisjoint(S, old, line) ==
  /\ S \subseteq Eligible(old, line)
  /\ \A m \in Eligible(old, line) :
       m \in S <=> ~(\E m2 \in S : m2 < m /\ m < m2 + Len(old))

\* out is line with the occurrences of S, each Len(old) long, turned into new
\* and every other character kept, in order.
Substituted(line, out, S, old, new) ==
  LET d == Len(new) - Len(old)
      before(x) == Cardinality({ m \in S : m < x })
      upto(x) == Cardinality({ m \in S : m <= x })
  IN /\ Len(out) = Len(line) + Cardinality(S) * d
     /\ \A m \in S :
          SubSeq(out, m + before(m) * d, m + before(m) * d + Len(new) - 1) = new
     /\ \A x \in 1..Len(line) :
          ~(\E m \in S : m <= x /\ x < m + Len(old)) =>
            out[x + upto(x) * d] = line[x]

\* The line the loop wrote last, the line it was made from, and what the
\* first k rules make of that line.
LastLine == Len(result_lines)

LineAfter(k) == ApplyRules(rw_lines[LastLine], SubSeq(rw_replacements, 1, k))

ContentLineWritten ==
  /\ rw_state = "loop"
  /\ result_lines # <<>>
  /\ ~IsStructural(rw_lines[LastLine])

\* C7: on a content line every rule, applied to what the rules before it
\* left, replaces exactly the occurrences of its pattern that have a clean
\* boundary on both sides and share no character with an occurrence replaced
\* to their left; every other character is kept.
WordBoundaryRule ==
  ContentLineWritten =>
    /\ result_lines[LastLine] = LineAfter(Len(rw_replacements))
    /\ \A k \in DOMAIN rw_replacements :
         \A line \in {LineAfter(k - 1)}, out \in {LineAfter(k)} :
           \A S \in {Range(FindMatches(rw_replacements[k][1], line, 1))} :
             /\ IsLeftmostDisjoint(S, rw_replacements[k][1], line)
             /\ Substituted(line, out, S, rw_replacements[k][1], rw_replacements[k][2])

\* A content line with an occurrence a rule replaced and an occurrence the
\* same rule left because a word character or a hyphen stands next to it.
WordBoundaryRuleWitness ==
  /\ ContentLineWritten
  /\ result_lines[LastLine] # rw_lines[LastLine]
  /\ \E k \in DOMAIN rw_replacements :
       LET old == rw_replacements[k][1]
           line == LineAfter(k - 1)
       IN /\ old # <<>>
          /\ FindMatches(old, line, 1) # <<>>
          /\ \E m \in 1..Len(line) : OccursAt(old, line, m) /\ m \notin Eligible(old, line)

\* C7 as stated: a rule replaces an occurrence if and only if both its
\* boundaries are clean.
OnlyBoundariesDecide ==
  ContentLineWritten =>
    \A k \in DOMAIN rw_replacements :
      LET old == rw_replacements[k][1]
      IN Range(FindMatches(old, LineAfter(k - 1), 1)) = Eligible(old, LineAfter(k - 1))

\* No pattern is empty and no replacement shares a character with a pattern
\* of the list, its own rule's pattern included.
NoOverlap(rules) ==
  /\ \A i \in DOMAIN rules : rules[i][1] # <<>>
  /\ \A i, j \in DOMAIN rules : Range(rules[i][2]) \cap Range(rules[j][1]) = {}

\* C8: with a non-empty rule list in which no replacement overlaps a
\* pattern, rewriting the output again gives the output.
Idempotent ==
  (/\ rw_state = "returned"
   /\ passes = 2
   /\ rw_replacements # <<>>
   /\ NoOverlap(rw_replacements)) =>
    output = first_output[1]

\* A line that after trimming is empty, is all digits, or holds the arrow.
StructuralLine(line) ==
  LET t == Strip(line)
  IN \/ t = <<>>
     \/ \A i \in DOMAIN t : t[i] \in Digits
     \/ \E i \in 1..(Len(t) - 2) : t[i] = "-" /\ t[i + 1] = "-" /\ t[i + 2] = ">"

\* C9: every structural line of the input is, character for character, the
\* line at the same position of the output.
StructuralLinesKept ==
  rw_state = "returned" =>
    LET in_lines == SplitLines(subtitles)
        out_lines == Split(output, <<"\n">>)
    IN \A i \in DOMAIN in_lines :
         StructuralLine(in_lines[i]) =>
           i <= Len(out_lines) /\ out_lines[i] = in_lines[i]

(***************************************************************************)
(* Claims about the floor match, checked under SpecFloor.                  *)
(***************************************************************************)
\* C10: when an element of the list is at most the target, the floor match
\* returns the largest such element and its position.
FloorMatch ==
  (floor_state = "returned" /\ \E i \in DOMAIN array : array[i] <= value) =>
    /\ max_value <= value
    /\ \A i \in DOMAIN array : array[i] <= value => array[i] <= max_value
    /\ index + 1 \in DOMAIN array
    /\ array[index + 1] = max_value

(***************************************************************************)
(* Claims about what the fallback parser emits, checked under SpecParse.   *)
(***************************************************************************)
\* The blocks that hold an index, a start, an end and a text, and the blocks
\* that lack one of them.
PresentKinds == {"good", "two_lines", "zero_index"}

MissingKinds == {"no_timecode", "bad_timecode", "no_index", "no_text"}

\* The entry the block at place k stands for: its own index, its own times,
\* its text lines joined by a space.
PresentEntry(kind, k) ==
  [index |-> IF kind = "zero_index" THEN 0 ELSE k,
   start |-> <<k, 0>>,
   end |-> <<k, 500000>>,
   content |-> IF kind = "two_lines" THEN TextLine \o <<" ">> \o SecondTextLine
               ELSE TextLine]

\* The parser stands right after a blank line.
AfterBlankLine ==
  /\ parse_state = "loop"
  /\ line_no > 1
  /\ Strip(lines[line_no - 1]) = <<>>

\* C11: every block with index, start, end and text is emitted as exactly one
\* entry, closed by a blank line or by the end of the input, and after a
\* blank line index, start, end and text are reset.
EmissionComplete ==
  /\ AfterBlankLine =>
       /\ subtitle_number = None
       /\ start_time = None
       /\ end_time = None
       /\ subtitle_text = <<>>
  /\ (ParseOver /\ \A i \in DOMAIN blocks : blocks[i] \in PresentKinds \cup MissingKinds) =>
       /\ parse_state = "returned"
       /\ \A k \in DOMAIN blocks :
            blocks[k] \in PresentKinds =>
              Cardinality({ j \in DOMAIN entries : entries[j] = PresentEntry(blocks[k], k) }) = 1

\* The last blank line before the line the loop stands at, or 0: the lines
\* after it are those of the block being read.
LastBlank ==
  LET blank == { i \in 1..(line_no - 1) : Strip(lines[i]) = <<>> }
  IN IF blank = {} THEN 0 ELSE CHOOSE i \in blank : \A j \in blank : j <= i

\* The block being read began with an index line and a timecode line.
HeaderRead ==
  /\ parse_state = "loop"
  /\ LastBlank + 2 <= line_no - 1
  /\ IsDigit(Strip(lines[LastBlank + 1]))
  /\ TimecodeMatch(Strip(lines[LastBlank + 2]))

\* The blocks with one or two text lines, a line of digits among them.
TextKinds == {"good", "two_lines", "number_text", "digits_in_text"}

TextOf(kind) ==
  CASE kind = "good" -> TextLine
    [] kind = "two_lines" -> TextLine \o <<" ">> \o SecondTextLine
    [] kind = "number_text" -> <<"4", "2">>
    [] kind = "digits_in_text" -> TextLine \o <<" ">> \o <<"4", "2">>

\* C12: after a block's index line and timecode line, the text held is the
\* lines read since, trimmed and in order, and the index and the times held
\* are those of the two lines; the entries returned carry each block's index
\* and times and the space-join of its text lines.
TextAccumulated ==
  /\ HeaderRead =>
       /\ subtitle_text = [i \in 1..(line_no - LastBlank - 3) |->
                             Strip(lines[LastBlank + 2 + i])]
       /\ subtitle_number = Some(IntOf(Strip(lines[LastBlank + 1])))
       /\ start_time = Some(SubSeq(Strip(lines[LastBlank + 2]), 1, 12))
       /\ end_time = Some(SubSeq(Strip(lines[LastBlank + 2]), 18,
                                 Len(Strip(lines[LastBlank + 2]))))
  /\ (ParseOver /\ \A i \in DOMAIN blocks : blocks[i] \in TextKinds) =>
       /\ parse_state = "returned"
       /\ entries = [k \in DOMAIN blocks |->
                       [index |-> k, start |-> <<k, 0>>, end |-> <<k, 500000>>,
                        content |-> TextOf(blocks[k])]]

(***************************************************************************)
(* A claim about the line structure the rewriter returns, checked under    *)
(* SpecRewrite.                                                            *)
(***************************************************************************)
\* The line separators of a text.
Separators(text) == Cardinality({ i \in DOMAIN text : text[i] = "\n" })

\* C13: with a non-empty rule list the output has as many line separators
\* as the input, so trailing empty lines and a final line break are kept.
LineStructureKept ==
  (rw_state = "returned" /\ rw_replacements # <<>>) =>
    Separators(output) = Separators(subtitles)

(***************************************************************************)
(* A claim about the progress of the lock guard, checked under SpecFair.   *)
(***************************************************************************)
\* The invocation has entered process_srt_file's wrapper.
InWrapper(p) ==
  \/ pc[p] \in {"check", "sleep", "recheck", "touch", "body", "convert", "finally",
                "unlink"}
  \/ pc[p] = "done" /\ result[p] \notin {"FileNotFoundError_subtitle",
                                         "FileNotFoundError_vocabular",
                                         "UnboundLocalError"}

\* The invocation claimed the lock and its body has ended, by returning or by
\* raising.
RanBody(p) == touched[p] /\ pending[p] # "none"

\* The invocation has returned and no other has entered the wrapper.
LoneReturned(p) ==
  /\ pc[p] = "done"
  /\ InWrapper(p)
  /\ \A q \in Procs \ {p} : ~InWrapper(q)

\* C14: with no marker from before, once an invocation has entered the
\* wrapper some invocation claims the lock and runs the body to its end; a
\* lone invocation has done so when it returns, and if its body returned the
\* output exists and the invocation returns what the body returned.
LockProgress ==
  /\ ((~preexisting /\ \E p \in Procs : InWrapper(p)) ~> (\E p \in Procs : RanBody(p)))
  /\ [](\A p \in Procs :
          (~preexisting /\ LoneReturned(p)) =>
            /\ RanBody(p)
            /\ saw_lock[p] = "no"
            /\ pending[p] = "output_path" => output_exists /\ result[p] = "output_path")

\* C14, its case: of two invocations with no marker from before, one skipped
\* and the other claimed the lock and wrote the output.
LockProgressWitness ==
  /\ ~preexisting
  /\ AllDone
  /\ \E p, q \in Procs :
       /\ saw_lock[q] # "no"
       /\ touched[p]
       /\ result[p] = "output_path"
       /\ output_exists

=============================================================================
